---- MODULE Spec2Model ----
(***************************************************************************)
(* A model of src/media_renderer.rs: the UPnP MediaRenderer control-point  *)
(* client.  Every public method of MediaRendererClient is an async fn that *)
(* builds a HashMap of string parameters, hands it to the device client's  *)
(* call_action, awaits the answer and post-processes it.  The model keeps  *)
(* one invocation record per caller; an invocation is split at its .await  *)
(* points, which are the only places where it can be suspended.            *)
(*                                                                         *)
(* Strings are TLA+ strings: Len, \o and SubSeq act on them as they do on  *)
(* sequences of characters, so formatting and XML serialisation are        *)
(* computed character by character, as the code computes them.             *)
(***************************************************************************)
EXTENDS Integers, Sequences, FiniteSets, TLC

VARIABLES inv, ft, bm

vars == <<inv, ft, bm>>

-----------------------------------------------------------------------------
(* Bounds of the model.                                                    *)

\* Number of callers that invoke methods of one client concurrently.
NumCallers == 2

\* format_time is applied to every number of seconds in 0..MaxSmallSeconds
\* and to the boundary values of SecondsSet.
MaxSmallSeconds == 130

-----------------------------------------------------------------------------
(* Strings and decimal formatting (Rust's Display for integers, {:02}).    *)

CharAt(s, i) == SubSeq(s, i, i)

Digit(d) == CharAt("0123456789", d + 1)

RECURSIVE to_string(_)
to_string(n) ==
    IF n < 10 THEN Digit(n) ELSE to_string(n \div 10) \o Digit(n % 10)

\* {:02}: zero-padded to a minimum width of two, never truncated.
Pad2(n) == IF Len(to_string(n)) < 2 THEN "0" \o to_string(n) ELSE to_string(n)

format_time_mod24(seconds) ==
    LET hours   == (seconds \div 3600) % 24
        minutes == (seconds % 3600) \div 60
        secs    == seconds % 60
    IN  Pad2(hours) \o ":" \o Pad2(minutes) \o ":" \o Pad2(secs)

format_time(seconds) ==
    LET hours   == seconds \div 3600
        minutes == (seconds % 3600) \div 60
        secs    == seconds % 60
    IN  Pad2(hours) \o ":" \o Pad2(minutes) \o ":" \o Pad2(secs)

-----------------------------------------------------------------------------
(* Option, Result and HashMap<String, String>.                             *)

None == [some |-> FALSE]

Some(x) == [some |-> TRUE, v |-> x]

unwrap_or(o, d) == IF o.some THEN o.v ELSE d

Ok(x) == [ok |-> TRUE, val |-> x]

Err(e) == [ok |-> FALSE, err |-> e]

Unit == "()"

HashMapNew == [k \in {} |-> ""]

\* HashMap::insert: the key is added, or its value replaced.
insert(params, k, v) ==
    [x \in (DOMAIN params) \cup {k} |-> IF x = k THEN v ELSE params[x]]

-----------------------------------------------------------------------------
(* crate::types (another file of the crate): Metadata and ObjectClass.     *)

\* Metadata::default(): every field the empty string.
MetadataDefault == [url |-> "", title |-> "", artist |-> "", protocol_info |-> ""]

\* ObjectClass::Audio.value()
ObjectClassAudioValue == "object.item.audioItem"

-----------------------------------------------------------------------------
(* The xml_builder crate, as build_metadata uses it: XMLElement::new,      *)
(* add_attribute, add_text, add_child, and XMLBuilder::new().build() with  *)
(* its defaults (version 1.0, UTF-8, indented with tabs, one element per   *)
(* line, attributes in insertion order).                                   *)

RECURSIVE replace(_, _, _)
\* str::replace(ch, rep) for a one-character pattern.
replace(s, ch, rep) ==
    IF Len(s) = 0 THEN ""
    ELSE (IF CharAt(s, 1) = ch THEN rep ELSE CharAt(s, 1))
            \o replace(SubSeq(s, 2, Len(s)), ch, rep)

\* The five predefined entities, the ampersand first.
escape_str(input) ==
    replace(replace(replace(replace(replace(input,
        "&", "&amp;"), "\"", "&quot;"), "'", "&apos;"), "<", "&lt;"), ">", "&gt;")

XMLElementNew(name) ==
    [name |-> name, attributes |-> <<>>, content |-> [kind |-> "Empty"]]

add_attribute(e, name, value) ==
    [e EXCEPT !.attributes = Append(@, <<name, escape_str(value)>>)]

\* Ok only for an element that has no content yet.
add_text(e, text) ==
    IF e.content.kind = "Empty"
    THEN Ok([e EXCEPT !.content = [kind |-> "Text", text |-> escape_str(text)]])
    ELSE Err("InsertError")

\* Ok for an element that has no content or has child elements.
add_child(e, child) ==
    CASE e.content.kind = "Empty" ->
            Ok([e EXCEPT !.content = [kind |-> "Elements", elements |-> <<child>>]])
      [] e.content.kind = "Elements" ->
            Ok([e EXCEPT !.content.elements = Append(@, child)])
      [] OTHER -> Err("InsertError")

RECURSIVE attributes_as_string(_)
attributes_as_string(attributes) ==
    IF attributes = <<>> THEN ""
    ELSE " " \o Head(attributes)[1] \o "=\"" \o Head(attributes)[2] \o "\""
             \o attributes_as_string(Tail(attributes))

RECURSIVE tabs(_)
tabs(level) == IF level = 0 THEN "" ELSE "\t" \o tabs(level - 1)

RECURSIVE render_level(_, _), render_elements(_, _)
render_level(e, level) ==
    LET indent == tabs(level)
        attrs  == attributes_as_string(e.attributes)
    IN  CASE e.content.kind = "Empty" ->
                indent \o "<" \o e.name \o attrs \o " />" \o "\n"
          [] e.content.kind = "Elements" ->
                indent \o "<" \o e.name \o attrs \o ">" \o "\n"
                    \o render_elements(e.content.elements, level + 1)
                    \o indent \o "</" \o e.name \o ">" \o "\n"
          [] e.content.kind = "Text" ->
                indent \o "<" \o e.name \o attrs \o ">" \o e.content.text
                    \o "</" \o e.name \o ">" \o "\n"

render_elements(elements, level) ==
    IF elements = <<>> THEN ""
    ELSE render_level(Head(elements), level) \o render_elements(Tail(elements), level)

\* XML::generate: the declaration line, then the root element.
generate(root) ==
    "<?xml version=\"1.0\" encoding=\"UTF-8\"?>" \o "\n" \o render_level(root, 0)

-----------------------------------------------------------------------------
(* build_metadata, lines 156-193.  Each .unwrap() panics on an Err; the    *)
(* result is Ok(document) or the panic.                                    *)

Panic == [ok |-> FALSE, err |-> "panic"]

build_metadata_title_first(m) ==
    LET didl  == add_attribute(add_attribute(add_attribute(add_attribute(
                    XMLElementNew("DIDL-Lite"),
                    "xmlns", "urn:schemas-upnp-org:metadata-1-0/DIDL-Lite/"),
                    "xmlns:dc", "http://purl.org/dc/elements/1.1/"),
                    "xmlns:upnp", "urn:schemas-upnp-org:metadata-1-0/upnp/"),
                    "xmlns:sec", "http://www.sec.co.kr/")
        item0 == add_attribute(add_attribute(add_attribute(XMLElementNew("item"),
                    "id", "0"), "parentID", "-1"), "restricted", "false")
        class == add_text(XMLElementNew("upnp:class"), ObjectClassAudioValue)
        item1 == IF class.ok THEN add_child(item0, class.val) ELSE Panic
        title  == IF item1.ok THEN add_text(XMLElementNew("dc:title"), m.title) ELSE Panic
        artist == IF title.ok THEN add_text(XMLElementNew("dc:artist"), m.artist) ELSE Panic
        res    == IF artist.ok
                  THEN add_text(add_attribute(XMLElementNew("res"),
                                              "protocolInfo", m.protocol_info), m.url)
                  ELSE Panic
        item2 == IF res.ok THEN add_child(item1.val, title.val) ELSE Panic
        item3 == IF item2.ok THEN add_child(item2.val, res.val) ELSE Panic
        item4 == IF item3.ok THEN add_child(item3.val, artist.val) ELSE Panic
        root  == IF item4.ok THEN add_child(didl, item4.val) ELSE Panic
    IN  IF root.ok THEN Ok(generate(root.val)) ELSE Panic

build_metadata(m) ==
    LET didl  == add_attribute(add_attribute(add_attribute(add_attribute(
                    XMLElementNew("DIDL-Lite"),
                    "xmlns", "urn:schemas-upnp-org:metadata-1-0/DIDL-Lite/"),
                    "xmlns:dc", "http://purl.org/dc/elements/1.1/"),
                    "xmlns:upnp", "urn:schemas-upnp-org:metadata-1-0/upnp/"),
                    "xmlns:sec", "http://www.sec.co.kr/")
        item0 == add_attribute(add_attribute(add_attribute(XMLElementNew("item"),
                    "id", "0"), "parentID", "-1"), "restricted", "false")
        class == add_text(XMLElementNew("upnp:class"), ObjectClassAudioValue)
        item1 == IF class.ok THEN add_child(item0, class.val) ELSE Panic
        title  == IF item1.ok THEN add_text(XMLElementNew("dc:title"), m.title) ELSE Panic
        artist == IF title.ok THEN add_text(XMLElementNew("dc:artist"), m.artist) ELSE Panic
        res    == IF artist.ok
                  THEN add_text(add_attribute(XMLElementNew("res"),
                                              "protocolInfo", m.protocol_info), m.url)
                  ELSE Panic
        item2 == IF res.ok THEN add_child(item1.val, res.val) ELSE Panic
        item3 == IF item2.ok THEN add_child(item2.val, title.val) ELSE Panic
        item4 == IF item3.ok THEN add_child(item3.val, artist.val) ELSE Panic
        root  == IF item4.ok THEN add_child(didl, item4.val) ELSE Panic
    IN  IF root.ok THEN Ok(generate(root.val)) ELSE Panic

-----------------------------------------------------------------------------
(* The parameter mappings, one per method, as the code inserts them.       *)

\* load, lines 30-45: the Metadata built from the url and the options.
load_metadata(url, options) ==
    LET dlna_features == unwrap_or(options.dlna_features, "*")
        content_type  == unwrap_or(options.content_type, "video/mpeg")
        protocol_info == "http-get:*:" \o content_type \o ":" \o dlna_features
        title         == unwrap_or(options.metadata, MetadataDefault).title
        artist        == unwrap_or(options.metadata, MetadataDefault).artist
    IN  [url |-> url, title |-> title, artist |-> artist,
         protocol_info |-> protocol_info]

play_params_no_instance ==
    insert(HashMapNew, "Speed", "1")

play_params ==
    insert(insert(HashMapNew, "InstanceID", "0"), "Speed", "1")

pause_params == insert(HashMapNew, "InstanceID", "0")

seek_params(seconds) ==
    insert(insert(insert(HashMapNew, "InstanceID", "0"), "Unit", "REL_TIME"),
           "Target", format_time(seconds))

stop_params == insert(HashMapNew, "InstanceID", "0")

get_volume_params ==
    insert(insert(HashMapNew, "InstanceID", "0"), "Channel", "Master")

set_volume_params_clamped(volume) ==
    insert(insert(insert(HashMapNew, "InstanceID", "0"), "Channel", "Master"),
           "DesiredVolume", to_string(IF volume > 100 THEN 100 ELSE volume))

set_volume_params(volume) ==
    insert(insert(insert(HashMapNew, "InstanceID", "0"), "Channel", "Master"),
           "DesiredVolume", to_string(volume))

get_supported_protocols_params == insert(HashMapNew, "InstanceID", "0")

get_position_params == insert(HashMapNew, "InstanceID", "0")

get_duration_params == insert(HashMapNew, "InstanceID", "0")

\* load, lines 47-50.
load_params(url, metadata_xml) ==
    insert(insert(insert(HashMapNew, "InstanceID", "0"), "CurrentURI", url),
           "CurrentURIMetaData", metadata_xml)

-----------------------------------------------------------------------------
(* The device client (external): call_action(service, action, params)      *)
(* sends one action and answers Ok(response body) or Err(transport error). *)

call_action(service, action, params) ==
    [service |-> service, action |-> action, params |-> params]

TransportErrors ==
    {[kind |-> "TransportError", msg |-> "connection refused"],
     [kind |-> "TransportError", msg |-> "SOAP fault 701"]}

BodyVolume == "<CurrentVolume>150</CurrentVolume>"

BodyPosition == "<RelTime>0:01:05.500</RelTime>"

BodyDuration == "<MediaDuration>1:00:00</MediaDuration>"

BodyProtocols == "<Sink>http-get:*:audio/mpeg:*,http-get:*:video/mp4:*</Sink>"

BodyMalformed == "<html>502</html>"

BodyEmpty == ""

QueryActions == {"GetVolume", "GetProtocolInfo", "GetPositionInfo", "GetMediaInfo"}

\* What the device may send back for an action.  The body of an action that
\* is no query is dropped by the client unread.
ResponseBodies(action) ==
    IF action \in QueryActions
    THEN {BodyVolume, BodyPosition, BodyDuration, BodyProtocols, BodyMalformed}
    ELSE {BodyEmpty}

Answers(action) ==
    {Err(e) : e \in TransportErrors} \cup {Ok(b) : b \in ResponseBodies(action)}

-----------------------------------------------------------------------------
(* crate::parser (another file of the crate): the four decoders, by        *)
(* their contract on the sample bodies.  A body without the field the      *)
(* decoder looks for is a parse error that carries the body.               *)

ParseError(body) == [kind |-> "ParseError", raw |-> body]

parse_volume(body) ==
    IF body = BodyVolume THEN Ok(150) ELSE Err(ParseError(body))

parse_supported_protocols(body) ==
    IF body = BodyProtocols
    THEN Ok(<<"http-get:*:audio/mpeg:*", "http-get:*:video/mp4:*">>)
    ELSE Err(ParseError(body))

parse_position(body) ==
    IF body = BodyPosition THEN Ok(65) ELSE Err(ParseError(body))

parse_duration(body) ==
    IF body = BodyDuration THEN Ok(3600) ELSE Err(ParseError(body))

-----------------------------------------------------------------------------
(* Invocations.  inv[c] is the invocation caller c has in progress:        *)
(*   pc          "idle", "await" (suspended at a call_action(..).await),   *)
(*               "returned" (the future resolved to result) or "panicked"  *)
(*   calls       the actions it handed to call_action, in order            *)
(*   answers     what call_action answered, in order                       *)
(*   decoded     the decoders it invoked, with the body each was given     *)
(*   suspensions the number of times it was suspended                      *)

Callers == 1 .. NumCallers

InvIdle == [pc |-> "idle"]

Outstanding(i) == Len(i.calls) - Len(i.answers)

\* The method runs up to its first .await on call_action.
Dispatch(c, op, arg, call) ==
    inv' = [inv EXCEPT ![c] =
              [pc |-> "await", op |-> op, arg |-> arg, calls |-> <<call>>,
               answers |-> <<>>, decoded |-> <<>>, suspensions |-> 1,
               result |-> None]]

\* The method's future resolves to result r after answer a.
Resolve(c, a, r) ==
    inv' = [inv EXCEPT ![c].pc = "returned", ![c].answers = Append(@, a),
                       ![c].result = r]

\* As Resolve, after handing the answer's body to a decoder.
ResolveDecoded(c, a, decoder, r) ==
    inv' = [inv EXCEPT ![c].pc = "returned", ![c].answers = Append(@, a),
                       ![c].decoded = Append(@, [decoder |-> decoder, body |-> a.val]),
                       ![c].result = r]

Awaiting(c, op) == inv[c].pc = "await" /\ inv[c].op = op

LastCall(c) == inv[c].calls[Len(inv[c].calls)]

NoArg == <<>>

-----------------------------------------------------------------------------
(* The inputs the callers draw from.                                       *)

LoadUrls == {"http://host/a.mp3", "http://host/v?id=1&q=<x>"}

OptionsDefault ==
    [dlna_features |-> None, content_type |-> None, metadata |-> None,
     autoplay |-> FALSE]

OptionsFull ==
    [dlna_features |-> Some("DLNA.ORG_OP=01"), content_type |-> Some("audio/mpeg"),
     metadata |-> Some([url |-> "", title |-> "Song", artist |-> "AC/DC",
                        protocol_info |-> ""]),
     autoplay |-> TRUE]

OptionsAutoplay == [OptionsDefault EXCEPT !.autoplay = TRUE]

LoadOptionsSet == {OptionsDefault, OptionsAutoplay, OptionsFull}

SeekSeconds == {7384, 360000}

Volumes == {0, 150}

-----------------------------------------------------------------------------
(* The methods of MediaRendererClient.  Each method is one action up to    *)
(* its .await and one action per continuation.                             *)

\* build_metadata(m) for the Metadata of each load the callers can make (the
\* value depends on the arguments alone, so it is tabulated once).
LoadMetadataXml ==
    [url \in LoadUrls, options \in LoadOptionsSet |->
        build_metadata(load_metadata(url, options))]

\* seek's parameters for each number of seconds the callers can pass.
SeekParams == [seconds \in SeekSeconds |-> seek_params(seconds)]

\* A load that hands both actions to the transport at once.
load_both_at_once(c, url, options) ==
    /\ inv[c].pc = "idle"
    /\ inv' = [inv EXCEPT ![c] =
                 [pc |-> "await", op |-> "load",
                  arg |-> [url |-> url, options |-> options],
                  calls |-> <<call_action("AVTransport", "SetAVTransportURI",
                                          load_params(url, LoadMetadataXml[url, options].val)),
                              call_action("AVTransport", "Play", play_params)>>,
                  answers |-> <<>>, decoded |-> <<>>, suspensions |-> 1,
                  result |-> None]]
    /\ UNCHANGED <<ft, bm>>

\* load, lines 29-53: build the metadata and the parameters, dispatch
\* SetAVTransportURI.
load(c, url, options) ==
    /\ inv[c].pc = "idle"
    /\ LET xml == LoadMetadataXml[url, options] IN
       IF xml.ok
       THEN Dispatch(c, "load", [url |-> url, options |-> options],
                     call_action("AVTransport", "SetAVTransportURI",
                                 load_params(url, xml.val)))
       ELSE inv' = [inv EXCEPT ![c] = [pc |-> "panicked", op |-> "load",
                       arg |-> [url |-> url, options |-> options],
                       calls |-> <<>>, answers |-> <<>>, decoded |-> <<>>,
                       suspensions |-> 0, result |-> None]]
    /\ UNCHANGED <<ft, bm>>

\* A load that plays whatever SetAVTransportURI answered.
load_set_uri_answered_play_anyway(c) ==
    /\ Awaiting(c, "load") /\ Len(inv[c].calls) = 1
    /\ \E a \in Answers(LastCall(c).action) :
          IF inv[c].arg.options.autoplay
          THEN inv' = [inv EXCEPT ![c].answers = Append(@, a),
                          ![c].calls = Append(@, call_action("AVTransport", "Play",
                                                             play_params)),
                          ![c].suspensions = @ + 1]
          ELSE IF ~a.ok THEN Resolve(c, a, Err(a.err)) ELSE Resolve(c, a, Ok(Unit))
    /\ UNCHANGED <<ft, bm>>

\* load, lines 53-59: SetAVTransportURI answered.  An error is returned by
\* the ? operator; otherwise, with autoplay, play() is called and awaited.
load_set_uri_answered(c) ==
    /\ Awaiting(c, "load") /\ Len(inv[c].calls) = 1
    /\ \E a \in Answers(LastCall(c).action) :
          IF ~a.ok THEN Resolve(c, a, Err(a.err))
          ELSE IF inv[c].arg.options.autoplay
          THEN inv' = [inv EXCEPT ![c].answers = Append(@, a),
                          ![c].calls = Append(@, call_action("AVTransport", "Play",
                                                             play_params)),
                          ![c].suspensions = @ + 1]
          ELSE Resolve(c, a, Ok(Unit))
    /\ UNCHANGED <<ft, bm>>

\* A load that drops the error of its Play.
load_play_answered_swallowed(c) ==
    /\ Awaiting(c, "load") /\ Len(inv[c].calls) = 2
    /\ \E a \in Answers(LastCall(c).action) : Resolve(c, a, Ok(Unit))
    /\ UNCHANGED <<ft, bm>>

\* load, lines 56-59, inside play, lines 66-69: Play answered.
load_play_answered(c) ==
    /\ Awaiting(c, "load") /\ Len(inv[c].calls) = 2
    /\ \E a \in Answers(LastCall(c).action) :
          IF ~a.ok THEN Resolve(c, a, Err(a.err)) ELSE Resolve(c, a, Ok(Unit))
    /\ UNCHANGED <<ft, bm>>

play(c) ==
    /\ inv[c].pc = "idle"
    /\ Dispatch(c, "play", NoArg, call_action("AVTransport", "Play", play_params))
    /\ UNCHANGED <<ft, bm>>

play_answered(c) ==
    /\ Awaiting(c, "play")
    /\ \E a \in Answers(LastCall(c).action) :
          IF ~a.ok THEN Resolve(c, a, Err(a.err)) ELSE Resolve(c, a, Ok(Unit))
    /\ UNCHANGED <<ft, bm>>

pause(c) ==
    /\ inv[c].pc = "idle"
    /\ Dispatch(c, "pause", NoArg, call_action("AVTransport", "Pause", pause_params))
    /\ UNCHANGED <<ft, bm>>

pause_answered(c) ==
    /\ Awaiting(c, "pause")
    /\ \E a \in Answers(LastCall(c).action) :
          IF ~a.ok THEN Resolve(c, a, Err(a.err)) ELSE Resolve(c, a, Ok(Unit))
    /\ UNCHANGED <<ft, bm>>

seek(c, seconds) ==
    /\ inv[c].pc = "idle"
    /\ Dispatch(c, "seek", [seconds |-> seconds],
                call_action("AVTransport", "Seek", SeekParams[seconds]))
    /\ UNCHANGED <<ft, bm>>

\* seek, lines 88-89: an error is returned by ?; after a successful
\* dispatch the body reaches todo!(), which panics.
seek_answered(c) ==
    /\ Awaiting(c, "seek")
    /\ \E a \in Answers(LastCall(c).action) :
          IF ~a.ok THEN Resolve(c, a, Err(a.err))
          ELSE inv' = [inv EXCEPT ![c].pc = "panicked", ![c].answers = Append(@, a)]
    /\ UNCHANGED <<ft, bm>>

stop(c) ==
    /\ inv[c].pc = "idle"
    /\ Dispatch(c, "stop", NoArg, call_action("AVTransport", "Stop", stop_params))
    /\ UNCHANGED <<ft, bm>>

stop_answered(c) ==
    /\ Awaiting(c, "stop")
    /\ \E a \in Answers(LastCall(c).action) :
          IF ~a.ok THEN Resolve(c, a, Err(a.err)) ELSE Resolve(c, a, Ok(Unit))
    /\ UNCHANGED <<ft, bm>>

get_volume(c) ==
    /\ inv[c].pc = "idle"
    /\ Dispatch(c, "get_volume", NoArg,
                call_action("RenderingControl", "GetVolume", get_volume_params))
    /\ UNCHANGED <<ft, bm>>

\* A get_volume that asks again after a transport error.
get_volume_answered_retry(c) ==
    /\ Awaiting(c, "get_volume")
    /\ \E a \in Answers(LastCall(c).action) :
          IF ~a.ok
          THEN IF Len(inv[c].calls) = 1
               THEN inv' = [inv EXCEPT ![c].answers = Append(@, a),
                               ![c].calls = Append(@, LastCall(c)),
                               ![c].suspensions = @ + 1]
               ELSE Resolve(c, a, Err(a.err))
          ELSE ResolveDecoded(c, a, "parse_volume", parse_volume(a.val))
    /\ UNCHANGED <<ft, bm>>

\* A get_volume that answers 0 when the decoder fails.
get_volume_answered_default(c) ==
    /\ Awaiting(c, "get_volume")
    /\ \E a \in Answers(LastCall(c).action) :
          IF ~a.ok THEN Resolve(c, a, Err(a.err))
          ELSE ResolveDecoded(c, a, "parse_volume",
                              IF parse_volume(a.val).ok THEN parse_volume(a.val) ELSE Ok(0))
    /\ UNCHANGED <<ft, bm>>

\* Ok(parse_volume(response.as_str())?): the decoder's value, or its error.
get_volume_answered(c) ==
    /\ Awaiting(c, "get_volume")
    /\ \E a \in Answers(LastCall(c).action) :
          IF ~a.ok THEN Resolve(c, a, Err(a.err))
          ELSE ResolveDecoded(c, a, "parse_volume", parse_volume(a.val))
    /\ UNCHANGED <<ft, bm>>

set_volume(c, volume) ==
    /\ inv[c].pc = "idle"
    /\ Dispatch(c, "set_volume", [volume |-> volume],
                call_action("RenderingControl", "SetVolume", set_volume_params(volume)))
    /\ UNCHANGED <<ft, bm>>

set_volume_answered(c) ==
    /\ Awaiting(c, "set_volume")
    /\ \E a \in Answers(LastCall(c).action) :
          IF ~a.ok THEN Resolve(c, a, Err(a.err)) ELSE Resolve(c, a, Ok(Unit))
    /\ UNCHANGED <<ft, bm>>

get_supported_protocols(c) ==
    /\ inv[c].pc = "idle"
    /\ Dispatch(c, "get_supported_protocols", NoArg,
                call_action("ConnectionManager", "GetProtocolInfo",
                            get_supported_protocols_params))
    /\ UNCHANGED <<ft, bm>>

get_supported_protocols_answered(c) ==
    /\ Awaiting(c, "get_supported_protocols")
    /\ \E a \in Answers(LastCall(c).action) :
          IF ~a.ok THEN Resolve(c, a, Err(a.err))
          ELSE ResolveDecoded(c, a, "parse_supported_protocols",
                              parse_supported_protocols(a.val))
    /\ UNCHANGED <<ft, bm>>

get_position(c) ==
    /\ inv[c].pc = "idle"
    /\ Dispatch(c, "get_position", NoArg,
                call_action("AVTransport", "GetPositionInfo", get_position_params))
    /\ UNCHANGED <<ft, bm>>

get_position_answered(c) ==
    /\ Awaiting(c, "get_position")
    /\ \E a \in Answers(LastCall(c).action) :
          IF ~a.ok THEN Resolve(c, a, Err(a.err))
          ELSE ResolveDecoded(c, a, "parse_position", parse_position(a.val))
    /\ UNCHANGED <<ft, bm>>

get_duration(c) ==
    /\ inv[c].pc = "idle"
    /\ Dispatch(c, "get_duration", NoArg,
                call_action("AVTransport", "GetMediaInfo", get_duration_params))
    /\ UNCHANGED <<ft, bm>>

get_duration_answered(c) ==
    /\ Awaiting(c, "get_duration")
    /\ \E a \in Answers(LastCall(c).action) :
          IF ~a.ok THEN Resolve(c, a, Err(a.err))
          ELSE ResolveDecoded(c, a, "parse_duration", parse_duration(a.val))
    /\ UNCHANGED <<ft, bm>>

\* The caller takes the result; it may invoke another method afterwards.
Return(c) ==
    /\ inv[c].pc = "returned"
    /\ inv' = [inv EXCEPT ![c] = InvIdle]
    /\ UNCHANGED <<ft, bm>>

FtOff == [pc |-> "off"]

BmOff == [pc |-> "off"]

Init == inv = [c \in Callers |-> InvIdle] /\ ft = FtOff /\ bm = BmOff

Next ==
    \E c \in Callers :
        \/ \E url \in LoadUrls, options \in LoadOptionsSet : load(c, url, options)
        \/ load_set_uri_answered(c)
        \/ load_play_answered(c)
        \/ play(c)
        \/ play_answered(c)
        \/ pause(c)
        \/ pause_answered(c)
        \/ \E seconds \in SeekSeconds : seek(c, seconds)
        \/ seek_answered(c)
        \/ stop(c)
        \/ stop_answered(c)
        \/ get_volume(c)
        \/ get_volume_answered(c)
        \/ \E volume \in Volumes : set_volume(c, volume)
        \/ set_volume_answered(c)
        \/ get_supported_protocols(c)
        \/ get_supported_protocols_answered(c)
        \/ get_position(c)
        \/ get_position_answered(c)
        \/ get_duration(c)
        \/ get_duration_answered(c)
        \/ Return(c)

Spec == Init /\ [][Next]_vars

-----------------------------------------------------------------------------
(* Specification SpecFmt: format_time applied to bounded inputs.           *)

SecondsSet ==
    (0 .. MaxSmallSeconds) \cup
    {599, 600, 3599, 3600, 3601, 3661, 7384, 35999, 36000, 86399, 86400,
     359999, 360000, 360001, 2147483647}

FtInit == ft \in [pc : {"start"}, seconds : SecondsSet, out : {""}]

FormatTimeStep ==
    /\ ft.pc = "start"
    /\ ft' = [ft EXCEPT !.pc = "done", !.out = format_time(ft.seconds)]
    /\ UNCHANGED <<inv, bm>>

FormatTimeAgain ==
    /\ ft.pc = "done"
    /\ \E s \in SecondsSet : ft' = [pc |-> "start", seconds |-> s, out |-> ""]
    /\ UNCHANGED <<inv, bm>>

InitFmt == inv = [c \in Callers |-> InvIdle] /\ FtInit /\ bm = BmOff

NextFmt == FormatTimeStep \/ FormatTimeAgain

SpecFmt == InitFmt /\ [][NextFmt]_vars

-----------------------------------------------------------------------------
(* Specification SpecMeta: load's Metadata (lines 30-45) and               *)
(* build_metadata applied to bounded urls and options.                     *)

MetaUrls == {"http://host/a.mp3", "http://host/v?id=1&q=<x>", "file:///it's \"here\".mp4"}

MetaTitles == {"", "Song", "Tom & Jerry <live> \"x\" 'y'"}

MetaArtists == {"", "AC/DC", "a>b&amp;c"}

MetaFeatures == {None, Some("DLNA.ORG_OP=01;DLNA.ORG_FLAGS=\"01\"&<>'")}

MetaContentTypes == {None, Some("audio/mpeg")}

MetaMetadata ==
    {None} \cup
    {Some([url |-> "", title |-> t, artist |-> a, protocol_info |-> ""]) :
        t \in MetaTitles, a \in MetaArtists}

MetaOptions ==
    [dlna_features : MetaFeatures, content_type : MetaContentTypes,
     metadata : MetaMetadata, autoplay : {FALSE}]

BmInit == bm \in [pc : {"start"}, url : MetaUrls, options : MetaOptions]

BuildMetadataStep ==
    /\ bm.pc = "start"
    /\ bm' = [pc |-> "done", url |-> bm.url, options |-> bm.options,
              m |-> load_metadata(bm.url, bm.options),
              out |-> build_metadata(load_metadata(bm.url, bm.options))]
    /\ UNCHANGED <<inv, ft>>

BuildMetadataAgain ==
    /\ bm.pc = "done"
    /\ \E url \in MetaUrls, options \in MetaOptions :
          bm' = [pc |-> "start", url |-> url, options |-> options]
    /\ UNCHANGED <<inv, ft>>

InitMeta == inv = [c \in Callers |-> InvIdle] /\ ft = FtOff /\ BmInit

NextMeta == BuildMetadataStep \/ BuildMetadataAgain

SpecMeta == InitMeta /\ [][NextMeta]_vars

-----------------------------------------------------------------------------
(* Reading an XML document back (used to state the claims): the document   *)
(* as a sequence of events, with entity references resolved.               *)

\* The least index k >= i with doc[k] = ch, or 0.
IndexFrom(doc, i, ch) ==
    LET S == {k \in i .. Len(doc) : CharAt(doc, k) = ch}
    IN  IF S = {} THEN 0 ELSE CHOOSE k \in S : \A j \in S : k <= j

StartsWith(s, p) == Len(s) >= Len(p) /\ SubSeq(s, 1, Len(p)) = p

Entities ==
    {<<"&amp;", "&">>, <<"&lt;", "<">>, <<"&gt;", ">">>, <<"&quot;", "\"">>,
     <<"&apos;", "'">>}

RECURSIVE Unescape(_)
Unescape(s) ==
    IF Len(s) = 0 THEN ""
    ELSE IF \E e \in Entities : StartsWith(s, e[1])
    THEN LET e == CHOOSE e \in Entities : StartsWith(s, e[1])
         IN  e[2] \o Unescape(SubSeq(s, Len(e[1]) + 1, Len(s)))
    ELSE CharAt(s, 1) \o Unescape(SubSeq(s, 2, Len(s)))

\* Character data: no raw "<", and every "&" starts an entity reference.
CharDataOk(s) ==
    \A i \in 1 .. Len(s) :
        /\ CharAt(s, i) # "<"
        /\ CharAt(s, i) = "&" =>
              \E e \in Entities : StartsWith(SubSeq(s, i, Len(s)), e[1])

RECURSIVE SkipSpaces(_)
SkipSpaces(s) ==
    IF Len(s) > 0 /\ CharAt(s, 1) = " " THEN SkipSpaces(SubSeq(s, 2, Len(s))) ELSE s

RECURSIVE ReadAttributes(_)
\* name="value" pairs, or a last entry <<"?", "?">> for text that is none.
ReadAttributes(s) ==
    LET t  == SkipSpaces(s)
        eq == IndexFrom(t, 1, "=")
        q  == IF eq = 0 THEN 0 ELSE IndexFrom(t, eq + 2, "\"")
    IN  IF Len(t) = 0 \/ t = "/" THEN <<>>
        ELSE IF eq < 2 \/ q = 0 \/ CharAt(t, eq + 1) # "\""
                \/ ~CharDataOk(SubSeq(t, eq + 2, q - 1))
        THEN <<<<"?", "?">>>>
        ELSE <<<<SubSeq(t, 1, eq - 1), Unescape(SubSeq(t, eq + 2, q - 1))>>>>
                 \o ReadAttributes(SubSeq(t, q + 1, Len(t)))

ReadTag(t) ==
    IF StartsWith(t, "?") THEN [type |-> "decl"]
    ELSE IF StartsWith(t, "/") THEN [type |-> "close", name |-> SubSeq(t, 2, Len(t))]
    ELSE LET sp   == IndexFrom(t, 1, " ")
             name == IF sp = 0 THEN t ELSE SubSeq(t, 1, sp - 1)
             rest == IF sp = 0 THEN "" ELSE SubSeq(t, sp, Len(t))
         IN  [type |-> "open", name |-> name, attributes |-> ReadAttributes(rest)]

RECURSIVE ReadEvents(_, _)
ReadEvents(doc, i) ==
    IF i > Len(doc) THEN <<>>
    ELSE IF CharAt(doc, i) = "<"
    THEN LET j == IndexFrom(doc, i, ">")
         IN  IF j = 0 THEN <<[type |-> "error"]>>
             ELSE <<ReadTag(SubSeq(doc, i + 1, j - 1))>> \o ReadEvents(doc, j + 1)
    ELSE LET j == IndexFrom(doc, i, "<")
             e == IF j = 0 THEN Len(doc) + 1 ELSE j
             t == SubSeq(doc, i, e - 1)
         IN  <<IF CharDataOk(t) THEN [type |-> "text", text |-> Unescape(t)]
                                ELSE [type |-> "error"]>>
                 \o ReadEvents(doc, e)

IsBlank(s) == \A i \in 1 .. Len(s) : CharAt(s, i) \in {" ", "\t", "\n"}

RECURSIVE SelectEvents(_, _)
\* The events of ev without the declaration and without the white space
\* between elements (blank text that is not the whole content of an element).
SelectEvents(ev, k) ==
    IF k > Len(ev) THEN <<>>
    ELSE LET between == ~(k > 1 /\ k < Len(ev) /\ ev[k - 1].type = "open"
                             /\ ev[k + 1].type = "close")
             drop == \/ ev[k].type = "decl" /\ k = 1
                     \/ ev[k].type = "text" /\ IsBlank(ev[k].text) /\ between
         IN  (IF drop THEN <<>> ELSE <<ev[k]>>) \o SelectEvents(ev, k + 1)

Events(doc) == SelectEvents(ReadEvents(doc, 1), 1)

\* The tags of the document in order: "<name" opens, ">name" closes; text
\* is "#text".
Shape(ev) ==
    [k \in 1 .. Len(ev) |->
        CASE ev[k].type = "open"  -> "<" \o ev[k].name
          [] ev[k].type = "close" -> ">" \o ev[k].name
          [] ev[k].type = "text"  -> "#text"
          [] OTHER -> "!" \o ev[k].type]

DropText(sh) == SelectSeq(sh, LAMBDA x : x # "#text")

\* Every text is the whole content of an element: <x>text</x>.
TextOnlyInLeaves(ev) ==
    \A k \in 1 .. Len(ev) :
        ev[k].type = "text" =>
            /\ k > 1 /\ k < Len(ev)
            /\ ev[k - 1].type = "open" /\ ev[k + 1].type = "close"
            /\ ev[k - 1].name = ev[k + 1].name

OpenOf(ev, name) == CHOOSE k \in 1 .. Len(ev) : ev[k].type = "open" /\ ev[k].name = name

\* The text of the element called name ("" when it has none).
TextOf(ev, name) ==
    LET k == OpenOf(ev, name)
    IN  IF k < Len(ev) /\ ev[k + 1].type = "text" THEN ev[k + 1].text ELSE ""

AttributesOf(ev, name) == ev[OpenOf(ev, name)].attributes

DidlShape ==
    <<"<DIDL-Lite", "<item", "<upnp:class", ">upnp:class", "<res", ">res",
      "<dc:title", ">dc:title", "<dc:artist", ">dc:artist", ">item", ">DIDL-Lite">>

\* What a reader of the document finds in it.
Extract(doc) ==
    LET ev == Events(doc) IN
    IF DropText(Shape(ev)) = DidlShape /\ TextOnlyInLeaves(ev)
    THEN [wellformed |-> TRUE,
          item |-> AttributesOf(ev, "item"),
          res |-> AttributesOf(ev, "res"),
          url |-> TextOf(ev, "res"),
          title |-> TextOf(ev, "dc:title"),
          artist |-> TextOf(ev, "dc:artist"),
          class |-> TextOf(ev, "upnp:class")]
    ELSE [wellformed |-> FALSE, shape |-> Shape(ev)]

\* C7: the document build_metadata returns is a DIDL-Lite root holding one
\* item (id "0", parentID "-1", restricted "false") whose children are, in
\* this order, one upnp:class, one res, one dc:title and one dc:artist; read
\* back, the res protocolInfo and text and the title and artist texts are the
\* item's protocol_info, url, title and artist.
C7_MetadataRoundTrip ==
    bm.pc = "done" =>
        /\ bm.out.ok
        /\ LET x == Extract(bm.out.val) IN
           /\ x.wellformed
           /\ x.item = <<<<"id", "0">>, <<"parentID", "-1">>, <<"restricted", "false">>>>
           /\ x.res = <<<<"protocolInfo", bm.m.protocol_info>>>>
           /\ x.url = bm.m.url /\ bm.m.url = bm.url
           /\ x.title = bm.m.title
           /\ x.artist = bm.m.artist

C7_Witness ==
    /\ bm.pc = "done" /\ bm.out.ok
    /\ bm.m.title = "Tom & Jerry <live> \"x\" 'y'"
    /\ bm.m.url = "http://host/v?id=1&q=<x>"
    /\ bm.m.artist = "a>b&amp;c"
    /\ bm.options.dlna_features.some

-----------------------------------------------------------------------------
(* Reading an HH:MM:SS string back (used to state the claims).             *)

IsDigit(ch) == \E d \in 0 .. 9 : ch = Digit(d)

AllDigits(s) == Len(s) > 0 /\ \A i \in 1 .. Len(s) : IsDigit(CharAt(s, i))

DigitValue(ch) == CHOOSE d \in 0 .. 9 : ch = Digit(d)

RECURSIVE DecimalValue(_)
DecimalValue(s) ==
    IF Len(s) = 0 THEN 0
    ELSE 10 * DecimalValue(SubSeq(s, 1, Len(s) - 1)) + DigitValue(CharAt(s, Len(s)))

ColonsOf(s) == {i \in 1 .. Len(s) : CharAt(s, i) = ":"}

\* The three fields of h:m:s, or <<>> when s does not hold exactly two colons.
TimeFields(s) ==
    IF Cardinality(ColonsOf(s)) # 2 THEN <<>>
    ELSE LET a == CHOOSE i \in ColonsOf(s) : \A j \in ColonsOf(s) : i <= j
             b == CHOOSE i \in ColonsOf(s) : \A j \in ColonsOf(s) : j <= i
         IN  <<SubSeq(s, 1, a - 1), SubSeq(s, a + 1, b - 1), SubSeq(s, b + 1, Len(s))>>

\* C8: format_time(s) is HH:MM:SS with hours = s div 3600, unclamped and at
\* least two digits wide, minutes and seconds two digits each and in 0..59,
\* so that hours*3600 + minutes*60 + seconds = s; with the four examples.
C8_FormatTime ==
    ft.pc = "done" =>
        LET f == TimeFields(ft.out) IN
        /\ Len(f) = 3
        /\ \A k \in 1 .. 3 : AllDigits(f[k])
        /\ Len(f[1]) >= 2 /\ (Len(f[1]) > 2 => CharAt(f[1], 1) # "0")
        /\ Len(f[2]) = 2 /\ Len(f[3]) = 2
        /\ DecimalValue(f[2]) \in 0 .. 59 /\ DecimalValue(f[3]) \in 0 .. 59
        /\ DecimalValue(f[1]) * 3600 + DecimalValue(f[2]) * 60 + DecimalValue(f[3])
              = ft.seconds
        /\ (ft.seconds = 0 => ft.out = "00:00:00")
        /\ (ft.seconds = 3661 => ft.out = "01:01:01")
        /\ (ft.seconds = 7384 => ft.out = "02:03:04")
        /\ (ft.seconds = 360000 => ft.out = "100:00:00")

C8_Witness == ft.pc = "done" /\ ft.seconds = 360000 /\ ft.out = "100:00:00"

-----------------------------------------------------------------------------
(* The claims about the client, over every invocation in progress or       *)
(* finished (its record stays until the caller takes the result).          *)

Active(c) == inv[c].pc # "idle"

IsLoad(c) == Active(c) /\ inv[c].op = "load"

Autoplay(c) == inv[c].arg.options.autoplay

ActionsOf(c) == [k \in 1 .. Len(inv[c].calls) |-> inv[c].calls[k].action]

\* C1: load without autoplay issues SetAVTransportURI and nothing else;
\* with autoplay it issues SetAVTransportURI, then Play, the Play only once
\* SetAVTransportURI has answered Ok; when SetAVTransportURI fails no Play
\* is issued and load fails.
C1_LoadCalls ==
    \A c \in Callers :
        IsLoad(c) =>
            LET i == inv[c] IN
            /\ Len(i.calls) \in {1, 2}
            /\ i.calls[1].service = "AVTransport"
            /\ i.calls[1].action = "SetAVTransportURI"
            /\ ~Autoplay(c) => ActionsOf(c) = <<"SetAVTransportURI">>
            /\ Len(i.calls) = 2 =>
                  /\ Autoplay(c)
                  /\ i.calls[2].service = "AVTransport" /\ i.calls[2].action = "Play"
                  /\ Len(i.answers) >= 1 /\ i.answers[1].ok
            /\ (Autoplay(c) /\ Len(i.answers) >= 1 /\ i.answers[1].ok) =>
                  ActionsOf(c) = <<"SetAVTransportURI", "Play">>
            /\ (Len(i.answers) >= 1 /\ ~i.answers[1].ok) =>
                  /\ ActionsOf(c) = <<"SetAVTransportURI">>
                  /\ i.pc = "returned" /\ ~i.result.ok
            /\ (i.pc = "returned" /\ i.result.ok) =>
                  Len(i.calls) = (IF Autoplay(c) THEN 2 ELSE 1)

C1_Witness ==
    /\ \E c \in Callers :
          /\ IsLoad(c) /\ Autoplay(c) /\ inv[c].pc = "returned" /\ inv[c].result.ok
          /\ ActionsOf(c) = <<"SetAVTransportURI", "Play">>
    /\ \E c \in Callers :
          /\ IsLoad(c) /\ ~Autoplay(c) /\ inv[c].pc = "returned" /\ inv[c].result.ok

\* C2: in a load with autoplay whose SetAVTransportURI succeeded and whose
\* Play failed, load returns the error of the Play, and the actions issued
\* stay SetAVTransportURI and Play: nothing is rolled back or sent after.
C2_PlayFailureSurfaces ==
    \A c \in Callers :
        (IsLoad(c) /\ Len(inv[c].answers) = 2 /\ inv[c].answers[1].ok
            /\ ~inv[c].answers[2].ok) =>
            /\ inv[c].pc = "returned"
            /\ inv[c].result = Err(inv[c].answers[2].err)
            /\ ActionsOf(c) = <<"SetAVTransportURI", "Play">>

C2_Witness ==
    \E c \in Callers :
        /\ IsLoad(c) /\ Len(inv[c].answers) = 2 /\ inv[c].answers[1].ok
        /\ inv[c].answers[2] = Err([kind |-> "TransportError", msg |-> "SOAP fault 701"])
        /\ inv[c].pc = "returned"

\* C3: seek never ends in a panic, and once the transport has answered the
\* Seek action with Ok, seek returns Ok(()).
C3_SeekReturnsUnit ==
    \A c \in Callers :
        (Active(c) /\ inv[c].op = "seek") =>
            /\ inv[c].pc # "panicked"
            /\ (Len(inv[c].answers) = 1 /\ inv[c].answers[1].ok) =>
                  inv[c].pc = "returned" /\ inv[c].result = Ok(Unit)

\* C4: when call_action fails, the method returns that error unchanged, the
\* failed action was issued once, no decoder was invoked and no action was
\* issued after it.
C4_TransportErrorPropagates ==
    \A c \in Callers :
        Active(c) =>
            \A k \in 1 .. Len(inv[c].answers) :
                ~inv[c].answers[k].ok =>
                    /\ inv[c].pc = "returned"
                    /\ inv[c].result = Err(inv[c].answers[k].err)
                    /\ inv[c].answers[k].err \in TransportErrors
                    /\ k = Len(inv[c].calls)
                    /\ Cardinality({j \in 1 .. Len(inv[c].calls) :
                            inv[c].calls[j].action = inv[c].calls[k].action}) = 1
                    /\ inv[c].decoded = <<>>

C4_Witness ==
    /\ \E c \in Callers :
          /\ Active(c) /\ inv[c].op = "get_volume" /\ inv[c].pc = "returned"
          /\ inv[c].result = Err([kind |-> "TransportError", msg |-> "connection refused"])
    /\ \E c \in Callers :
          /\ IsLoad(c) /\ inv[c].pc = "returned" /\ Len(inv[c].calls) = 1
          /\ inv[c].result = Err([kind |-> "TransportError", msg |-> "SOAP fault 701"])

\* The fields a reader finds in each metadata document a load can send.
ReadBack ==
    [x \in {LoadMetadataXml[u, o].val : u \in LoadUrls, o \in LoadOptionsSet} |->
        Extract(x)]

\* The row of the table for the k-th action of an invocation of op.
RowHolds(op, arg, k, call) ==
    CASE op = "play" ->
            call = [service |-> "AVTransport", action |-> "Play",
                    params |-> [InstanceID |-> "0", Speed |-> "1"]]
      [] op = "pause" ->
            call = [service |-> "AVTransport", action |-> "Pause",
                    params |-> [InstanceID |-> "0"]]
      [] op = "stop" ->
            call = [service |-> "AVTransport", action |-> "Stop",
                    params |-> [InstanceID |-> "0"]]
      [] op = "seek" ->
            /\ call.service = "AVTransport" /\ call.action = "Seek"
            /\ DOMAIN call.params = {"InstanceID", "Unit", "Target"}
            /\ call.params["InstanceID"] = "0"
            /\ call.params["Unit"] = "REL_TIME"
            /\ arg.seconds = 7384 => call.params["Target"] = "02:03:04"
            /\ arg.seconds = 360000 => call.params["Target"] = "100:00:00"
      [] op = "get_volume" ->
            call = [service |-> "RenderingControl", action |-> "GetVolume",
                    params |-> [InstanceID |-> "0", Channel |-> "Master"]]
      [] op = "set_volume" ->
            /\ call.service = "RenderingControl" /\ call.action = "SetVolume"
            /\ DOMAIN call.params = {"InstanceID", "Channel", "DesiredVolume"}
            /\ call.params["InstanceID"] = "0"
            /\ call.params["Channel"] = "Master"
            /\ AllDigits(call.params["DesiredVolume"])
            /\ DecimalValue(call.params["DesiredVolume"]) = arg.volume
            /\ arg.volume = 150 => call.params["DesiredVolume"] = "150"
            /\ arg.volume = 0 => call.params["DesiredVolume"] = "0"
      [] op = "get_supported_protocols" ->
            call = [service |-> "ConnectionManager", action |-> "GetProtocolInfo",
                    params |-> [InstanceID |-> "0"]]
      [] op = "get_position" ->
            call = [service |-> "AVTransport", action |-> "GetPositionInfo",
                    params |-> [InstanceID |-> "0"]]
      [] op = "get_duration" ->
            call = [service |-> "AVTransport", action |-> "GetMediaInfo",
                    params |-> [InstanceID |-> "0"]]
      [] op = "load" /\ k = 2 ->
            call = [service |-> "AVTransport", action |-> "Play",
                    params |-> [InstanceID |-> "0", Speed |-> "1"]]
      [] op = "load" /\ k = 1 ->
            /\ call.service = "AVTransport" /\ call.action = "SetAVTransportURI"
            /\ DOMAIN call.params = {"InstanceID", "CurrentURI", "CurrentURIMetaData"}
            /\ call.params["InstanceID"] = "0"
            /\ call.params["CurrentURI"] = arg.url
            /\ call.params["CurrentURIMetaData"] \in DOMAIN ReadBack
            /\ LET x == ReadBack[call.params["CurrentURIMetaData"]] IN
               /\ x.wellformed
               /\ x.url = arg.url
               /\ x.res = <<<<"protocolInfo",
                             IF arg.options = OptionsFull
                             THEN "http-get:*:audio/mpeg:DLNA.ORG_OP=01"
                             ELSE "http-get:*:video/mpeg:*">>>>
               /\ x.title = (IF arg.options = OptionsFull THEN "Song" ELSE "")
               /\ x.artist = (IF arg.options = OptionsFull THEN "AC/DC" ELSE "")
      [] OTHER -> FALSE

\* C5: every action a method issues is the (service, action, parameters)
\* row of its operation, with exactly the row's argument names.
C5_ParameterTable ==
    \A c \in Callers :
        Active(c) =>
            \A k \in 1 .. Len(inv[c].calls) :
                RowHolds(inv[c].op, inv[c].arg, k, inv[c].calls[k])

C5_Witness ==
    /\ \E c \in Callers :
          /\ Active(c) /\ inv[c].op = "set_volume" /\ inv[c].arg.volume = 150
          /\ inv[c].calls[1].params["DesiredVolume"] = "150"
    /\ \E c \in Callers :
          /\ IsLoad(c) /\ inv[c].arg.options = OptionsFull /\ Len(inv[c].calls) = 2
          /\ inv[c].arg.url = "http://host/v?id=1&q=<x>"

Queries == {"get_volume", "get_supported_protocols", "get_position", "get_duration"}

OwnDecoder(op) ==
    CASE op = "get_volume" -> "parse_volume"
      [] op = "get_supported_protocols" -> "parse_supported_protocols"
      [] op = "get_position" -> "parse_position"
      [] op = "get_duration" -> "parse_duration"

\* The body of the sample responses that the decoder of op accepts.
OwnBody(op) ==
    CASE op = "get_volume" -> BodyVolume
      [] op = "get_supported_protocols" -> BodyProtocols
      [] op = "get_position" -> BodyPosition
      [] op = "get_duration" -> BodyDuration

\* C6: after a successful call a query hands the body to its own decoder,
\* once, and returns what the decoder returned: the decoded value as it is
\* (a volume of 150 stays 150), or a ParseError, never a default value.
C6_DecodedUnchanged ==
    \A c \in Callers :
        (Active(c) /\ inv[c].op \in Queries /\ Len(inv[c].answers) = 1
            /\ inv[c].answers[1].ok) =>
            LET i == inv[c]
                body == i.answers[1].val
            IN  /\ i.pc = "returned"
                /\ i.decoded = <<[decoder |-> OwnDecoder(i.op), body |-> body]>>
                /\ IF body = OwnBody(i.op)
                   THEN /\ i.result.ok
                        /\ i.op = "get_volume" => i.result.val = 150
                        /\ i.op = "get_position" => i.result.val = 65
                        /\ i.op = "get_duration" => i.result.val = 3600
                        /\ i.op = "get_supported_protocols" =>
                              i.result.val = <<"http-get:*:audio/mpeg:*",
                                               "http-get:*:video/mp4:*">>
                   ELSE /\ ~i.result.ok
                        /\ i.result.err = [kind |-> "ParseError", raw |-> body]

C6_Witness ==
    /\ \E c \in Callers :
          /\ Active(c) /\ inv[c].op = "get_volume" /\ inv[c].pc = "returned"
          /\ inv[c].result.ok /\ inv[c].result.val = 150
    /\ \E c \in Callers :
          /\ Active(c) /\ inv[c].op = "get_position" /\ inv[c].pc = "returned"
          /\ ~inv[c].result.ok /\ inv[c].result.err.kind = "ParseError"

\* C9 as stated: an invocation is suspended exactly once, and never has
\* more than one action outstanding.
C9_SuspendedExactlyOnce ==
    \A c \in Callers :
        Active(c) => inv[c].suspensions = 1 /\ Outstanding(inv[c]) <= 1

\* C9 as amended: an invocation is suspended once for each action it issues,
\* at the dispatch of that action, and is resumed with a body or a transport
\* error; that is once for every method, except twice for a load with
\* autoplay whose SetAVTransportURI succeeded; and it never has more than one
\* action outstanding.
C9_SuspendedOncePerAction ==
    \A c \in Callers :
        Active(c) =>
            LET i == inv[c] IN
            /\ Outstanding(i) \in {0, 1}
            /\ Outstanding(i) = 1 <=> i.pc = "await"
            /\ i.suspensions = Len(i.calls)
            /\ \A k \in 1 .. Len(i.answers) :
                  \/ i.answers[k].ok /\ i.answers[k].val \in ResponseBodies(i.calls[k].action)
                  \/ ~i.answers[k].ok /\ i.answers[k].err \in TransportErrors
            /\ i.suspensions =
                  (IF i.op = "load" /\ Autoplay(c) /\ Len(i.answers) >= 1
                        /\ i.answers[1].ok
                   THEN 2 ELSE 1)

C9_Witness ==
    \E c \in Callers :
        /\ IsLoad(c) /\ Autoplay(c) /\ inv[c].pc = "returned"
        /\ inv[c].suspensions = 2 /\ Outstanding(inv[c]) = 0

\* C10: every action handed to the transport, by whichever caller and
\* method (the Play of a load with autoplay included), carries InstanceID
\* with the value "0".
C10_InstanceIdZero ==
    \A c \in Callers :
        Active(c) =>
            \A k \in 1 .. Len(inv[c].calls) :
                /\ "InstanceID" \in DOMAIN inv[c].calls[k].params
                /\ inv[c].calls[k].params["InstanceID"] = "0"

C10_Witness ==
    \E c, d \in Callers :
        /\ c # d
        /\ IsLoad(c) /\ Len(inv[c].calls) = 2 /\ inv[c].pc = "await"
        /\ Active(d) /\ inv[d].op = "seek" /\ inv[d].pc = "await"

====
